---- MODULE Spec2Model ----
(***************************************************************************)
(* Litterbox: the SSH agent gatekeeper (litterbox/src/agent.rs).           *)
(*                                                                         *)
(* One agent server serves several connections.  Every wire message of a   *)
(* connection is passed to AskAgent::confirm_request, which consults the   *)
(* shared AgentState and, when a confirmation is needed, runs the program  *)
(* itself as a child process ("confirm --request R --lbx-name N"), reads   *)
(* the child's exit status and standard output and turns them into a       *)
(* decision.  The child runs prompt_confirmation, which shows the          *)
(* ConfirmationDialog and prints the UserResponse.                         *)
(*                                                                         *)
(* ChanSpec is the channel transport of src/main.rs: handlers put          *)
(* (message, one-shot sender) pairs on a bounded queue, the main loop      *)
(* forks one dialog process per request and answers on the one-shot.       *)
(*                                                                         *)
(* VaultSpec is the key vault of litterbox/src/keys.rs: one caller loads   *)
(* the Keys object from the key file and calls generate, delete, attach,   *)
(* detach and start_server on it; every change is saved as a whole.        *)
(***************************************************************************)
EXTENDS Integers, Sequences, FiniteSets, TLC

\* ------------------------------------------------------------------ bounds
\* Number of connections served concurrently by one agent server.
NumConns == 2

\* Total number of wire messages that arrive during one server lifetime.
MaxRequests == 3

Conns == 1..NumConns

\* Number of distinct key names the caller may use.
NumKeyNames == 2

\* Number of distinct litterbox names the caller may use.
NumBoxes == 2

\* Number of wrong passwords the user may enter at one prompt.
MaxWrongEntries == 1

\* Number of saves of the key file that may fail.
MaxFailedWrites == 1

KeyNames == 1..NumKeyNames

Boxes == 1..NumBoxes

\* ------------------------------------------------------------ enumerations
\* russh agent::server::MessageType, the wire message categories.
MessageType ==
    {"MessageType::RequestKeys", "MessageType::AddKeys",
     "MessageType::RemoveKeys", "MessageType::RemoveAllKeys",
     "MessageType::Sign", "MessageType::Lock", "MessageType::Unlock"}

UserRequest ==
    {"RequestKeys", "AddKeys", "RemoveKeys", "RemoveAllKeys", "Sign", "Lock",
     "Unlock"}

UserResponse == {"Approved", "Declined", "ApprovedForSession"}

\* impl From<MessageType> for UserRequest: a total match without default arm.
From(value) ==
    CASE value = "MessageType::RequestKeys"   -> "RequestKeys"
      [] value = "MessageType::AddKeys"       -> "AddKeys"
      [] value = "MessageType::RemoveKeys"    -> "RemoveKeys"
      [] value = "MessageType::RemoveAllKeys" -> "RemoveAllKeys"
      [] value = "MessageType::Sign"          -> "Sign"
      [] value = "MessageType::Lock"          -> "Lock"
      [] value = "MessageType::Unlock"        -> "Unlock"

\* ------------------------------------------------- text across the process
\* Standard output is a sequence of characters.  The three tokens that
\* strum's Display writes for UserResponse, spelled out.
Str_Approved == <<"A","p","p","r","o","v","e","d">>

Str_Declined == <<"D","e","c","l","i","n","e","d">>

Str_ApprovedForSession ==
    <<"A","p","p","r","o","v","e","d","F","o","r","S","e","s","s","i","o","n">>

\* #[derive(Display)] on UserResponse: the variant's name.
UserResponse_to_string(resp) ==
    CASE resp = "Approved"           -> Str_Approved
      [] resp = "Declined"           -> Str_Declined
      [] resp = "ApprovedForSession" -> Str_ApprovedForSession

\* #[derive(EnumString)] on UserResponse: exact match on the variant's name,
\* anything else is Err.
UserResponse_from_str(s) ==
    CASE s = Str_Approved           -> "Approved"
      [] s = Str_Declined           -> "Declined"
      [] s = Str_ApprovedForSession -> "ApprovedForSession"
      [] OTHER                      -> "Err"

\* #[derive(Display)] on UserRequest, as passed after --request.
UserRequest_to_string(request) == request

\* #[derive(EnumString)] on UserRequest, as parsed by prompt_confirmation.
UserRequest_from_str(s) == IF s \in UserRequest THEN s ELSE "Err"

\* println!("{..}"): the text followed by one newline.
println(text) == text \o <<"\n">>

\* The line prompt_confirmation prints when eframe::run_native fails
\* ("Error running ConfirmationDialog: ..."), abbreviated.
Str_RunError == <<"E","r","r","o","r">>

\* ------------------------------------------------------------ agent state
\* impl Default for AgentState.
AgentState_default == [locked |-> FALSE, approved_for_session |-> FALSE]

\* An AgentState as the caller of start_ssh_agent may hand it over: both
\* fields are public, start_ssh_agent takes whatever Arc<AgentState> it gets.
AgentState_locked == [locked |-> TRUE, approved_for_session |-> FALSE]

\* --------------------------------------------------------- child processes
NoChild ==
    [phase |-> "none", user_request |-> "None", user_response |-> "None",
     status |-> "None", stdout |-> <<>>]

\* ExitStatus::success(): exited with code 0.
success(status) == status = "exit(0)"

\* What a program at litterbox_path that is not this version's confirm
\* dialog may write before exiting with code 0.
ForeignOutputs ==
    { <<>>,
      <<"O","K","\n">>,
      Str_Approved,
      println(Str_ApprovedForSession) }

VARIABLES
    agent_state,    \* the shared AgentState: [locked, approved_for_session]
    built,          \* "default": AgentState::default(); "caller": built by the caller
    pc,             \* per connection: where its confirm_request call stands
    request,        \* per connection: the UserRequest being handled
    result,         \* per connection: the bool confirm_request returned
    resp,           \* per connection: the parsed UserResponse, "Err" or "None"
    prompts,        \* per connection: prompt processes started for this request
    child,          \* per connection: the prompt process of this request
    overtaking,     \* per connection: the message arrived while another request
                    \* awaited its answer, and has started no prompt of its own
    session_answers,    \* a confirmation has completed with ApprovedForSession
    dialog_end,     \* per connection: how the dialog of this request ended:
                    \* the button clicked, "closed", "run_error" or "none"
    served          \* wire messages arrived so far

\* The channel transport (src/main.rs).
VARIABLES
    h_pc,           \* per connection: where its confirm_request call stands
    h_rid,          \* per connection: the one-shot channel it created (0: none)
    h_result,       \* per connection: the bool confirm_request returned
    conf_req,       \* the mpsc queue of (message, one-shot sender) pairs
    oneshot,        \* per one-shot channel: receiver state and the value sent
    disp,           \* the main loop: position, item in hand, dialog process
    sends,          \* per one-shot channel: send calls made on it
    send_error,     \* per one-shot channel: a send on it returned Err
    user_answer,    \* per one-shot channel: how the dialog for its request ended
    next_rid        \* one-shot channels created so far

chan_vars ==
    <<h_pc, h_rid, h_result, conf_req, oneshot, disp, sends, send_error,
      user_answer, next_rid>>

\* The key vault (litterbox/src/keys.rs).
VARIABLES
    file,           \* the key file keys.ron: absent, written in full, or cut short
    mem,            \* the Keys object the caller holds (loaded = FALSE: none)
    v_pc,           \* where the caller stands: no object, ready, or inside a prompt
    v_call,         \* the call in progress or last finished, with its result
    failed_writes,  \* saves that have failed so far
    session         \* what the last start_server decrypted and registered

vault_vars == <<file, mem, v_pc, v_call, failed_writes, session>>

\* Several callers on one key file (keys.rs, load and save_to_file).
VARIABLES
    r_pc,           \* per caller: no Keys object, ready, or crashed
    r_mem,          \* per caller: the Keys object it holds
    r_acked,        \* the changes whose call returned Ok and that no later
                    \* successful delete has taken back
    r_count         \* calls that have returned Ok so far

race_vars == <<r_pc, r_mem, r_acked, r_count>>

\* The socket file of one litterbox (files.rs, SshSockFile).
VARIABLES
    sock,           \* what is at the socket path, and who put it there
    srv,            \* per server process: where it stands
    bld             \* the process running build_litterbox: where it stands

sock_vars == <<sock, srv, bld>>

\* hash_password, check_password and the key encryption on their own.
VARIABLES
    t_pc,           \* how far the run has got
    t_in,           \* the inputs drawn
    t_out           \* the values computed from them

pure_vars == <<t_pc, t_in, t_out>>

more_vars == <<race_vars, sock_vars, pure_vars>>

agent_vars ==
    <<agent_state, built, pc, request, result, resp, prompts, child,
      overtaking, session_answers, dialog_end, served>>

vars == <<agent_vars, chan_vars, vault_vars, more_vars>>

history_vars == <<overtaking, session_answers, dialog_end, served>>

AgentInit ==
    /\ \/ agent_state = AgentState_default /\ built = "default"
       \/ agent_state = AgentState_locked /\ built = "caller"
    /\ pc = [c \in Conns |-> "idle"]
    /\ request = [c \in Conns |-> "None"]
    /\ result = [c \in Conns |-> FALSE]
    /\ resp = [c \in Conns |-> "None"]
    /\ prompts = [c \in Conns |-> 0]
    /\ child = [c \in Conns |-> NoChild]
    /\ overtaking = [c \in Conns |-> FALSE]
    /\ session_answers = FALSE
    /\ dialog_end = [c \in Conns |-> "none"]
    /\ served = 0

\* One-shot channels are numbered in order of creation.
Rids == 1..MaxRequests

NoItem == [msg |-> "None", tx |-> 0]

NoStatus == [kind |-> "None", code |-> 0]

NoDialog == [phase |-> "none", user_accepted |-> FALSE, status |-> NoStatus]

\* Lines 123-124: an empty queue, the main loop about to call recv.
ChanInit ==
    /\ h_pc = [c \in Conns |-> "idle"]
    /\ h_rid = [c \in Conns |-> 0]
    /\ h_result = [c \in Conns |-> FALSE]
    /\ conf_req = <<>>
    /\ oneshot = [r \in Rids |-> [rx |-> "none", tx |-> "none", value |-> <<>>]]
    /\ disp = [pc |-> "recv", item |-> NoItem, child |-> NoDialog]
    /\ sends = [r \in Rids |-> 0]
    /\ send_error = [r \in Rids |-> FALSE]
    /\ user_answer = [r \in Rids |-> "none"]
    /\ next_rid = 0

\* ------------------------------------------------------- the vault's data
\* The passwords a user may type; the master password is one of them.
Passwords == {"hunter2", "letmein"}

\* The salts SaltString::generate may draw.
Salts == {"salt-a"}

\* The key pairs gen_key may draw.
KeyPairs == {"ed25519-a", "ed25519-b"}

\* Lines 17-28: hash_password with the salt it drew; the PHC string names
\* the algorithm and the salt and holds the digest of password and salt.
hash_password(password, salt) ==
    [alg |-> "argon2id", salt |-> salt, digest |-> <<salt, password>>]

\* Variant: every password verifies.
check_password_any(password, hash) == TRUE

\* Variant: a hash verifies as soon as it names the algorithm.
check_password_alg(password, hash) == hash.alg = "argon2id"

\* Lines 30-39: check_password recomputes the digest with the hash's salt.
check_password(password, hash) ==
    hash.digest = <<hash.salt, password>>

\* Line 53: encode_pkcs8_encrypted(password, 10, key).
encode_pkcs8_encrypted(password, rounds, key) ==
    [rounds |-> rounds, sealed |-> <<password, key>>]

\* Variant: the ciphertext opens under any password.
decode_pkcs8_unchecked(ciphertext, password) ==
    [ok |-> TRUE, key |-> ciphertext.sealed[2]]

\* Line 247: decode_pkcs8(ciphertext, Some(password)).
decode_pkcs8(ciphertext, password) ==
    IF ciphertext.sealed[1] = password
    THEN [ok |-> TRUE, key |-> ciphertext.sealed[2]]
    ELSE [ok |-> FALSE, key |-> "None"]

\* Lines 48-60: Key::new with the key pair gen_key drew.
Key_new(name, password, key) ==
    [name |-> name,
     encrypted_key |-> encode_pkcs8_encrypted(password, 10, key),
     attached_litterboxes |-> <<>>]

NoHash == [alg |-> "None", salt |-> "None", digest |-> <<>>]

NoKeys == [loaded |-> FALSE, password_hash |-> NoHash, keys |-> <<>>]

\* Variant: the serialiser leaves the attachment lists out.
to_ron_no_attachments(ks) ==
    <<"Keys", ks.password_hash,
      [i \in 1..Len(ks.keys) |->
          <<ks.keys[i].name, ks.keys[i].encrypted_key, <<>>>>]>>

\* Lines 87-92: ron::ser::to_string of Keys: the fields in declaration
\* order, each key as the tuple of its fields.
to_ron(ks) ==
    <<"Keys", ks.password_hash,
      [i \in 1..Len(ks.keys) |->
          <<ks.keys[i].name, ks.keys[i].encrypted_key,
            ks.keys[i].attached_litterboxes>>]>>

\* Line 124: ron::from_str into Keys.
from_ron(text) ==
    [loaded |-> TRUE,
     password_hash |-> text[2],
     keys |-> [i \in 1..Len(text[3]) |->
                  [name |-> text[3][i][1],
                   encrypted_key |-> text[3][i][2],
                   attached_litterboxes |-> text[3][i][3]]]]

NoFile == [state |-> "absent", text |-> <<>>]

\* files.rs lines 25-33, write_file: the file holds the new text; or the
\* directory or the file could not be created and the file is as it was;
\* or the write broke off and left the file cut short.
write_file(old, contents) ==
    { [file |-> [state |-> "written", text |-> contents], result |-> "Ok"],
      [file |-> old, result |-> "WriteFailed"],
      [file |-> [state |-> "cut short", text |-> <<>>], result |-> "WriteFailed"] }

\* Lines 87-94: save_to_file serialises the whole object and writes it.
save_to_file(ks, old) == write_file(old, to_ron(ks))

\* Lines 150-152: key_mut, the first key of that name (0: none).
key_mut(ks, key_name) ==
    IF \E i \in 1..Len(ks.keys) : ks.keys[i].name = key_name
    THEN CHOOSE i \in 1..Len(ks.keys) :
            /\ ks.keys[i].name = key_name
            /\ \A j \in 1..(i - 1) : ks.keys[j].name # key_name
    ELSE 0

NoCall ==
    [op |-> "None", key_name |-> 0, box |-> 0, result |-> "None",
     prompts |-> 0, wrong |-> 0, writes |-> 0]

NoSession == [box |-> 0, verified |-> FALSE, decrypted |-> <<>>, registered |-> <<>>]

\* No key file yet and no Keys object: before the first run.
VaultInit ==
    /\ file = NoFile
    /\ mem = NoKeys
    /\ v_pc = "start"
    /\ v_call = NoCall
    /\ failed_writes = 0
    /\ session = NoSession

\* Bound on the calls that return Ok while several callers share the file.
MaxMutations == 3

\* Number of callers that hold a Keys object of the same key file.
NumCallers == 2

Callers == 1..NumCallers

\* Number of server processes started for the one litterbox.
NumServers == 2

Servers == 1..NumServers

\* No caller has loaded anything.
RaceInit ==
    /\ r_pc = [p \in Callers |-> "start"]
    /\ r_mem = [p \in Callers |-> NoKeys]
    /\ r_acked = {}
    /\ r_count = 0

NoSock == [kind |-> "none", by |-> 0]

\* Nothing at the socket path, no server and no build running.
SockInit ==
    /\ sock = NoSock
    /\ srv = [s \in Servers |-> [pc |-> "off", found |-> "none"]]
    /\ bld = "off"

NoInput == [password |-> "None", salt |-> "None", key |-> "None"]

NoCiphertext == [rounds |-> 0, sealed |-> <<>>]

NoOutput ==
    [hash |-> NoHash, ciphertext |-> NoCiphertext, stored |-> <<>>,
     loaded |-> NoCiphertext, tried |-> "None", verified |-> FALSE,
     decrypted |-> [ok |-> FALSE, key |-> "None"]]

PureIdle ==
    /\ t_pc = "idle"
    /\ t_in = NoInput
    /\ t_out = NoOutput

MoreInit == RaceInit /\ SockInit /\ PureIdle

Init == AgentInit /\ ChanInit /\ VaultInit /\ MoreInit

\* A wire message arrives on connection c and the server calls
\* confirm_request(msg); line 64 classifies it.  Connections are
\* interchangeable: a new connection takes the lowest unused slot.
Arrive(c, msg) ==
    /\ pc[c] \in {"idle", "returned"}
    /\ pc[c] = "idle" => \A d \in Conns : d < c => pc[d] # "idle"
    /\ served < MaxRequests
    /\ served' = served + 1
    /\ pc' = [pc EXCEPT ![c] = "check_locked"]
    /\ request' = [request EXCEPT ![c] = From(msg)]
    /\ result' = [result EXCEPT ![c] = FALSE]
    /\ resp' = [resp EXCEPT ![c] = "None"]
    /\ prompts' = [prompts EXCEPT ![c] = 0]
    /\ child' = [child EXCEPT ![c] = NoChild]
    /\ overtaking' =
           [overtaking EXCEPT
               ![c] = \E d \in Conns \ {c} : pc[d] = "await_output"]
    /\ dialog_end' = [dialog_end EXCEPT ![c] = "none"]
    /\ UNCHANGED <<agent_state, built, session_answers>>
    /\ UNCHANGED <<chan_vars, vault_vars, more_vars>>

\* ---------------------------------------------- confirm_request, the parent
\* Variant: the test on locked never takes the early return.
not_locked_never(st) == FALSE

\* Line 66: an agent that is not locked approves every request at once.
not_locked(st) == ~st.locked

\* Variant: RequestKeys passes without looking at the flag.
session_approved_unflagged(req, st) == req = "RequestKeys"

\* Variant: the flag passes every request kind.
session_approved_any_kind(req, st) == st.approved_for_session

\* Lines 74-75: RequestKeys on an agent approved for the session.
session_approved(req, st) ==
    req = "RequestKeys" /\ st.approved_for_session

\* Variant: the flag is flipped instead of set.
store_approved_for_session_flip(st) ==
    [st EXCEPT !.approved_for_session = ~@]

\* Variant: approving for the session also unlocks the agent.
store_approved_for_session_unlock(st) ==
    [st EXCEPT !.approved_for_session = TRUE, !.locked = FALSE]

\* Lines 104-106: approved_for_session.store(true, SeqCst).
store_approved_for_session(st) == [st EXCEPT !.approved_for_session = TRUE]

\* Variant: user_response starts as Approved.
prompt_start_approved(arg) ==
    LET user_request == UserRequest_from_str(arg) IN
    IF user_request = "Err"
    THEN [phase |-> "exited", user_request |-> "None",
          user_response |-> "None", status |-> "exit(101)", stdout |-> <<>>]
    ELSE [phase |-> "dialog", user_request |-> user_request,
          user_response |-> "Approved", status |-> "None", stdout |-> <<>>]

\* prompt_confirmation up to the dialog: parse the --request argument
\* (a failed parse panics: exit code 101, nothing printed), start with
\* user_response = Declined (line 219).
prompt_start(arg) ==
    LET user_request == UserRequest_from_str(arg) IN
    IF user_request = "Err"
    THEN [phase |-> "exited", user_request |-> "None",
          user_response |-> "None", status |-> "exit(101)", stdout |-> <<>>]
    ELSE [phase |-> "dialog", user_request |-> user_request,
          user_response |-> "Declined", status |-> "None", stdout |-> <<>>]

\* A program at litterbox_path that is not this confirm dialog.
foreign_start ==
    [phase |-> "foreign", user_request |-> "None", user_response |-> "None",
     status |-> "None", stdout |-> <<>>]

\* Variant: the handler first waits until no other prompt is pending.
CheckLocked_serial(c) ==
    /\ pc[c] = "check_locked"
    /\ \A d \in Conns : pc[d] # "await_output"
    /\ IF not_locked(agent_state)
       THEN /\ pc' = [pc EXCEPT ![c] = "returned"]
            /\ result' = [result EXCEPT ![c] = TRUE]
       ELSE /\ pc' = [pc EXCEPT ![c] = "check_session"]
            /\ UNCHANGED result
    /\ UNCHANGED <<agent_state, built, request, resp, prompts, child>>
    /\ UNCHANGED history_vars
    /\ UNCHANGED <<chan_vars, vault_vars, more_vars>>

\* Line 66-72: the load of locked.
CheckLocked(c) ==
    /\ pc[c] = "check_locked"
    /\ IF not_locked(agent_state)
       THEN /\ pc' = [pc EXCEPT ![c] = "returned"]
            /\ result' = [result EXCEPT ![c] = TRUE]
       ELSE /\ pc' = [pc EXCEPT ![c] = "check_session"]
            /\ UNCHANGED result
    /\ UNCHANGED <<agent_state, built, request, resp, prompts, child>>
    /\ UNCHANGED history_vars
    /\ UNCHANGED <<chan_vars, vault_vars, more_vars>>

\* Lines 74-90: the load of approved_for_session, then Command::output(),
\* which starts the child at once and suspends the handler until the
\* child's output is complete.  A child that cannot be started yields
\* Err at the await and line 91's expect panics.
CheckSession(c) ==
    /\ pc[c] = "check_session"
    /\ IF session_approved(request[c], agent_state)
       THEN /\ pc' = [pc EXCEPT ![c] = "returned"]
            /\ result' = [result EXCEPT ![c] = TRUE]
            /\ UNCHANGED <<prompts, child, overtaking>>
       ELSE /\ overtaking' = [overtaking EXCEPT ![c] = FALSE]
            /\ UNCHANGED result
            /\ \/ /\ pc' = [pc EXCEPT ![c] = "await_output"]
                  /\ prompts' = [prompts EXCEPT ![c] = @ + 1]
                  /\ child' = [child EXCEPT
                         ![c] = prompt_start(UserRequest_to_string(request[c]))]
               \/ /\ pc' = [pc EXCEPT ![c] = "await_output"]
                  /\ prompts' = [prompts EXCEPT ![c] = @ + 1]
                  /\ child' = [child EXCEPT ![c] = foreign_start]
               \/ /\ pc' = [pc EXCEPT ![c] = "panicked"]
                  /\ child' = [child EXCEPT ![c] = [NoChild EXCEPT
                                                      !.phase = "spawn_failed"]]
                  /\ UNCHANGED prompts
    /\ UNCHANGED <<agent_state, built, request, resp, session_answers, dialog_end,
                   served>>
    /\ UNCHANGED <<chan_vars, vault_vars, more_vars>>

\* ------------------------------------------ prompt_confirmation, the child
\* Variant: the third button is offered for every request kind.
may_approve_for_session_always(user_request) == TRUE

\* Line 149.
may_approve_for_session(user_request) == user_request = "RequestKeys"

\* The buttons ConfirmationDialog::update shows (lines 138-153).
Buttons(user_request) ==
    {"Approve", "Decline"} \cup
    (IF may_approve_for_session(user_request)
     THEN {"Approve for Session"} ELSE {})

\* What a click stores in user_response (lines 140, 145, 151).
clicked(button) ==
    CASE button = "Approve"             -> "Approved"
      [] button = "Decline"             -> "Declined"
      [] button = "Approve for Session" -> "ApprovedForSession"

\* The child after run_native returned: line 239 prints user_response,
\* preceded by line 236's error line when run_native failed.
prompt_exit(ch, user_response, run_failed) ==
    [ch EXCEPT
        !.phase = "exited",
        !.user_response = user_response,
        !.status = "exit(0)",
        !.stdout = (IF run_failed THEN println(Str_RunError) ELSE <<>>)
                   \o println(UserResponse_to_string(user_response))]

\* The user clicks one of the buttons; the click closes the window.
DialogButton(c, button) ==
    /\ child[c].phase = "dialog"
    /\ button \in Buttons(child[c].user_request)
    /\ child' = [child EXCEPT
                    ![c] = prompt_exit(child[c], clicked(button), FALSE)]
    /\ dialog_end' = [dialog_end EXCEPT ![c] = button]
    /\ UNCHANGED <<agent_state, built, pc, request, result, resp, prompts>>
    /\ UNCHANGED <<overtaking, session_answers, served>>
    /\ UNCHANGED <<chan_vars, vault_vars, more_vars>>

\* The window is closed without a click: user_response keeps its initial
\* value.
DialogClosed(c) ==
    /\ child[c].phase = "dialog"
    /\ child' = [child EXCEPT
                    ![c] = prompt_exit(child[c], child[c].user_response, FALSE)]
    /\ dialog_end' = [dialog_end EXCEPT ![c] = "closed"]
    /\ UNCHANGED <<agent_state, built, pc, request, result, resp, prompts>>
    /\ UNCHANGED <<overtaking, session_answers, served>>
    /\ UNCHANGED <<chan_vars, vault_vars, more_vars>>

\* eframe::run_native returns Err (lines 235-237).
DialogRunError(c) ==
    /\ child[c].phase = "dialog"
    /\ child' = [child EXCEPT
                    ![c] = prompt_exit(child[c], child[c].user_response, TRUE)]
    /\ dialog_end' = [dialog_end EXCEPT ![c] = "run_error"]
    /\ UNCHANGED <<agent_state, built, pc, request, result, resp, prompts>>
    /\ UNCHANGED <<overtaking, session_answers, served>>
    /\ UNCHANGED <<chan_vars, vault_vars, more_vars>>

\* The child is terminated by a signal before it printed anything.
ChildKilled(c) ==
    /\ child[c].phase \in {"dialog", "foreign"}
    /\ child' = [child EXCEPT ![c] = [NoChild EXCEPT !.phase = "exited",
                                                      !.status = "signal"]]
    /\ UNCHANGED <<agent_state, built, pc, request, result, resp, prompts>>
    /\ UNCHANGED history_vars
    /\ UNCHANGED <<chan_vars, vault_vars, more_vars>>

\* A foreign program exits with code 0 after writing out.
ForeignExit(c, out) ==
    /\ child[c].phase = "foreign"
    /\ child' = [child EXCEPT ![c] = [@ EXCEPT !.phase = "exited",
                                                !.status = "exit(0)",
                                                !.stdout = out]]
    /\ UNCHANGED <<agent_state, built, pc, request, result, resp, prompts>>
    /\ UNCHANGED history_vars
    /\ UNCHANGED <<chan_vars, vault_vars, more_vars>>

\* ------------------------------------- confirm_request after the await
\* extract_stdout (litterbox/src/main.rs): Err unless the status is success.
extract_stdout(output) ==
    IF ~success(output.status)
    THEN [ok |-> FALSE, text |-> <<>>]
    ELSE [ok |-> TRUE, text |-> output.stdout]

\* Line 97: &stdout[..(stdout.len() - 1)].  On empty output the index
\* computation underflows and the slice panics.
strip_last(stdout) ==
    IF Len(stdout) = 0
    THEN [ok |-> FALSE, text |-> <<>>]
    ELSE [ok |-> TRUE, text |-> SubSeq(stdout, 1, Len(stdout) - 1)]

\* Variant: a plain approval is remembered like an approval for the session.
decide_sticky(parsed, st) ==
    CASE parsed = "Approved" ->
             [result |-> TRUE, agent_state |-> store_approved_for_session(st)]
      [] parsed = "Declined" -> [result |-> FALSE, agent_state |-> st]
      [] parsed = "ApprovedForSession" ->
             [result |-> TRUE, agent_state |-> store_approved_for_session(st)]
      [] OTHER -> [result |-> FALSE, agent_state |-> st]

\* Lines 99-113: the decision for a parsed response, and the state it leaves.
decide(parsed, st) ==
    CASE parsed = "Approved" -> [result |-> TRUE, agent_state |-> st]
      [] parsed = "Declined" -> [result |-> FALSE, agent_state |-> st]
      [] parsed = "ApprovedForSession" ->
             [result |-> TRUE, agent_state |-> store_approved_for_session(st)]
      [] OTHER -> [result |-> FALSE, agent_state |-> st]

\* Lines 91-113: the child's output is complete (the child is reaped) and
\* the handler resumes.
OutputReady(c) ==
    /\ pc[c] = "await_output"
    /\ child[c].phase = "exited"
    /\ LET stdout == extract_stdout(child[c])
           resp_str == strip_last(stdout.text)
       IN IF ~stdout.ok \/ ~resp_str.ok
          THEN /\ pc' = [pc EXCEPT ![c] = "panicked"]
               /\ UNCHANGED <<agent_state, result, resp, session_answers>>
          ELSE LET parsed == UserResponse_from_str(resp_str.text)
                   d == decide(parsed, agent_state)
               IN /\ pc' = [pc EXCEPT ![c] = "returned"]
                  /\ resp' = [resp EXCEPT ![c] = parsed]
                  /\ result' = [result EXCEPT ![c] = d.result]
                  /\ agent_state' = d.agent_state
                  /\ session_answers' =
                         (session_answers \/ parsed = "ApprovedForSession")
    /\ child' = [child EXCEPT ![c] = NoChild]
    /\ UNCHANGED <<built, request, prompts>>
    /\ UNCHANGED <<overtaking, dialog_end, served>>
    /\ UNCHANGED <<chan_vars, vault_vars, more_vars>>

Next ==
    \/ \E c \in Conns : \E msg \in MessageType : Arrive(c, msg)
    \/ \E c \in Conns : CheckLocked(c)
    \/ \E c \in Conns : CheckSession(c)
    \/ \E c \in Conns : \E button \in {"Approve", "Decline", "Approve for Session"} :
           DialogButton(c, button)
    \/ \E c \in Conns : DialogClosed(c)
    \/ \E c \in Conns : DialogRunError(c)
    \/ \E c \in Conns : ChildKilled(c)
    \/ \E c \in Conns : \E out \in ForeignOutputs : ForeignExit(c, out)
    \/ \E c \in Conns : OutputReady(c)

Spec == Init /\ [][Next]_vars

\* ===============================================================\* The channel transport (src/main.rs)
\* ===============================================================\* Line 123: mpsc::channel(100).
CONF_REQ_CAPACITY == 100

\* Lines 113-114.
USER_ACCEPTED == 123

USER_DECLINED == 100

\* Lines 27-35: the text shown for a wire message.
user_req_msg(msg) ==
    CASE msg = "MessageType::RequestKeys"   -> "RequestKeys"
      [] msg = "MessageType::AddKeys"       -> "AddKeys"
      [] msg = "MessageType::RemoveKeys"    -> "RemoveKeys"
      [] msg = "MessageType::RemoveAllKeys" -> "RemoveAllKeys"
      [] msg = "MessageType::Sign"          -> "Sign"
      [] msg = "MessageType::Lock"          -> "Lock"
      [] msg = "MessageType::Unlock"        -> "Unlock"

\* main holds conf_req_rx for the whole of its loop (lines 123-178), so the
\* receiving end of the queue is open whenever a handler sends.
conf_req_rx_open == TRUE

\* oneshot::Sender::send: the value is stored if the receiver is still
\* there, otherwise it is handed back as Err.
oneshot_send(slot, value) ==
    IF slot.rx = "open"
    THEN [res |-> "Ok", slot |-> [slot EXCEPT !.value = <<value>>, !.tx = "used"]]
    ELSE [res |-> "Err", slot |-> [slot EXCEPT !.tx = "used"]]

\* Awaiting oneshot::Receiver: the value once sent; Err once the sender is
\* gone without having sent.
oneshot_recv(slot) ==
    IF slot.value # <<>> THEN [res |-> "Ok", value |-> slot.value[1]]
    ELSE IF slot.tx \in {"used", "dropped"} THEN [res |-> "Err", value |-> FALSE]
    ELSE [res |-> "Pending", value |-> FALSE]

\* Lines 24-39: a wire message arrives on connection c; confirm_request
\* picks the text, creates its one-shot channel and sends the pair on the
\* queue (waiting while the queue is full).  A closed queue is the Err arm
\* of lines 47-50.
ChanArrive(c, msg) ==
    /\ h_pc[c] \in {"idle", "returned"}
    /\ h_pc[c] = "idle" => \A d \in Conns : d < c => h_pc[d] # "idle"
    /\ next_rid < MaxRequests
    /\ Len(conf_req) < CONF_REQ_CAPACITY
    /\ LET r == next_rid + 1 IN
       /\ next_rid' = r
       /\ h_rid' = [h_rid EXCEPT ![c] = r]
       /\ IF conf_req_rx_open
          THEN /\ oneshot' = [oneshot EXCEPT
                      ![r] = [rx |-> "open", tx |-> "held", value |-> <<>>]]
               /\ conf_req' = Append(conf_req, [msg |-> user_req_msg(msg), tx |-> r])
               /\ h_pc' = [h_pc EXCEPT ![c] = "await_resp"]
               /\ h_result' = [h_result EXCEPT ![c] = FALSE]
          ELSE /\ oneshot' = [oneshot EXCEPT
                      ![r] = [rx |-> "closed", tx |-> "dropped", value |-> <<>>]]
               /\ h_pc' = [h_pc EXCEPT ![c] = "returned"]
               /\ h_result' = [h_result EXCEPT ![c] = FALSE]
               /\ UNCHANGED conf_req
    /\ UNCHANGED <<disp, sends, send_error, user_answer>>
    /\ UNCHANGED <<agent_vars, vault_vars, more_vars>>

\* Lines 40-46: the handler's await on its own receiver completes.
ChanResponse(c) ==
    /\ h_pc[c] = "await_resp"
    /\ LET got == oneshot_recv(oneshot[h_rid[c]]) IN
       /\ got.res # "Pending"
       /\ h_result' = [h_result EXCEPT
              ![c] = IF got.res = "Ok" THEN got.value ELSE FALSE]
    /\ h_pc' = [h_pc EXCEPT ![c] = "returned"]
    /\ oneshot' = [oneshot EXCEPT ![h_rid[c]] = [@ EXCEPT !.rx = "closed"]]
    /\ UNCHANGED <<h_rid, conf_req, disp, sends, send_error, user_answer, next_rid>>
    /\ UNCHANGED <<agent_vars, vault_vars, more_vars>>

\* The task of a waiting handler is dropped (its connection or the server
\* task ends): its receiver is dropped with it.
HandlerGone(c) ==
    /\ h_pc[c] = "await_resp"
    /\ h_pc' = [h_pc EXCEPT ![c] = "gone"]
    /\ oneshot' = [oneshot EXCEPT ![h_rid[c]] = [@ EXCEPT !.rx = "closed"]]
    /\ UNCHANGED <<h_rid, h_result, conf_req, disp, sends, send_error,
                   user_answer, next_rid>>
    /\ UNCHANGED <<agent_vars, vault_vars, more_vars>>

\* Variant: the answer goes to the one-shot channel created last.
reply_slot_latest(item) == next_rid

\* The one-shot sender the main loop answers on: the one that came with
\* the item (lines 126, 139, 173).
reply_slot(item) == item.tx

\* Variant: the loop ends after its first answer (if let for while let).
after_send_once(res) == "ended"

\* Variant: a failed send is unwrapped.
after_send_unwrap(res) == IF res = "Err" THEN "panicked" ELSE "recv"

\* Lines 139-141 and 173-175: a failed send is printed and the loop goes on.
after_send(res) == "recv"

\* Lines 139-141, 173-175: user_resp_tx.send(value) and what it leaves.
DispSend(item, value) ==
    LET r == reply_slot(item)
        sent == oneshot_send(oneshot[r], value)
    IN /\ oneshot' = [oneshot EXCEPT ![r] = sent.slot]
       /\ sends' = [sends EXCEPT ![r] = @ + 1]
       /\ send_error' = [send_error EXCEPT ![r] = @ \/ sent.res = "Err"]
       /\ disp' = [pc |-> after_send(sent.res), item |-> NoItem, child |-> NoDialog]

\* Lines 126-128, 143-146: recv yields the oldest item and fork succeeds;
\* the child starts the dialog with user_accepted = false, the parent
\* blocks in waitpid.
DispRecvFork ==
    /\ disp.pc = "recv"
    /\ conf_req # <<>>
    /\ disp' = [pc |-> "waitpid", item |-> Head(conf_req),
                child |-> [phase |-> "dialog", user_accepted |-> FALSE,
                           status |-> NoStatus]]
    /\ conf_req' = Tail(conf_req)
    /\ UNCHANGED <<h_pc, h_rid, h_result, oneshot, sends, send_error,
                   user_answer, next_rid>>
    /\ UNCHANGED <<agent_vars, vault_vars, more_vars>>

\* Lines 126-127, 170-176: recv yields the oldest item and fork fails.
DispRecvForkFailed ==
    /\ disp.pc = "recv"
    /\ conf_req # <<>>
    /\ DispSend(Head(conf_req), FALSE)
    /\ conf_req' = Tail(conf_req)
    /\ user_answer' = [user_answer EXCEPT ![Head(conf_req).tx] = "fork_failed"]
    /\ UNCHANGED <<h_pc, h_rid, h_result, next_rid>>
    /\ UNCHANGED <<agent_vars, vault_vars, more_vars>>

\* Lines 162-168: the exit code of the dialog process.
exit_code(user_accepted) ==
    IF user_accepted THEN USER_ACCEPTED ELSE USER_DECLINED

\* Lines 100-108: the user clicks Yes or No; the click closes the window
\* and the child exits.
ChanDialogButton(button) ==
    /\ disp.child.phase = "dialog"
    /\ LET user_accepted == (button = "Yes") IN
       /\ disp' = [disp EXCEPT
              !.child = [phase |-> "exited", user_accepted |-> user_accepted,
                         status |-> [kind |-> "Exited",
                                     code |-> exit_code(user_accepted)]]]
       /\ user_answer' = [user_answer EXCEPT
              ![disp.item.tx] = IF user_accepted THEN "yes" ELSE "no"]
    /\ UNCHANGED <<h_pc, h_rid, h_result, conf_req, oneshot, sends, send_error,
                   next_rid>>
    /\ UNCHANGED <<agent_vars, vault_vars, more_vars>>

\* The window is closed without a click, or run_native fails (lines
\* 158-160): user_accepted keeps its initial value.
ChanDialogClosed ==
    /\ disp.child.phase = "dialog"
    /\ disp' = [disp EXCEPT
           !.child = [phase |-> "exited", user_accepted |-> @.user_accepted,
                      status |-> [kind |-> "Exited",
                                  code |-> exit_code(@.user_accepted)]]]
    /\ user_answer' = [user_answer EXCEPT ![disp.item.tx] = "closed"]
    /\ UNCHANGED <<h_pc, h_rid, h_result, conf_req, oneshot, sends, send_error,
                   next_rid>>
    /\ UNCHANGED <<agent_vars, vault_vars, more_vars>>

\* The dialog process is terminated by a signal.
ChanChildKilled ==
    /\ disp.child.phase = "dialog"
    /\ disp' = [disp EXCEPT
           !.child = [phase |-> "exited", user_accepted |-> FALSE,
                      status |-> [kind |-> "Signaled", code |-> 0]]]
    /\ user_answer' = [user_answer EXCEPT ![disp.item.tx] = "killed"]
    /\ UNCHANGED <<h_pc, h_rid, h_result, conf_req, oneshot, sends, send_error,
                   next_rid>>
    /\ UNCHANGED <<agent_vars, vault_vars, more_vars>>

\* Lines 131-137: what the parent makes of the wait status.
user_accepted_of(status) ==
    IF status.kind = "Exited" THEN status.code = USER_ACCEPTED ELSE FALSE

\* Lines 131-141: waitpid returns and the parent answers on the one-shot.
DispWait ==
    /\ disp.pc = "waitpid"
    /\ disp.child.phase = "exited"
    /\ DispSend(disp.item, user_accepted_of(disp.child.status))
    /\ UNCHANGED <<h_pc, h_rid, h_result, conf_req, user_answer, next_rid>>
    /\ UNCHANGED <<agent_vars, vault_vars, more_vars>>

ChanNext ==
    \/ \E c \in Conns : \E msg \in MessageType : ChanArrive(c, msg)
    \/ \E c \in Conns : ChanResponse(c)
    \/ \E c \in Conns : HandlerGone(c)
    \/ DispRecvFork
    \/ DispRecvForkFailed
    \/ \E button \in {"Yes", "No"} : ChanDialogButton(button)
    \/ ChanDialogClosed
    \/ ChanChildKilled
    \/ DispWait

\* The channel transport on its own: the agent of agent.rs stays as built.
\* The agent as AgentState::default() builds it, an empty queue, no vault.
ChanSpecInit ==
    AgentInit /\ built = "default" /\ ChanInit /\ VaultInit /\ MoreInit

ChanSpec == ChanSpecInit /\ [][ChanNext]_vars

\* What the scheduling gives.  The main loop keeps running: recv yields when
\* the queue holds an item (line 126) and waitpid returns once the child has
\* exited (line 131).  Every dialog process exits (lines 102, 107, 168).
\* The runtime wakes a handler whose one-shot receiver is ready (line 40).
\* Nothing obliges a client to send a message or a handler task to be
\* dropped.
ChanFairness ==
    /\ WF_vars(DispRecvFork \/ DispRecvForkFailed)
    /\ WF_vars(DispWait)
    /\ WF_vars((\E button \in {"Yes", "No"} : ChanDialogButton(button))
               \/ ChanDialogClosed \/ ChanChildKilled)
    /\ \A c \in Conns : WF_vars(ChanResponse(c))

\* The channel transport with a running main loop and exiting dialogs.
ChanLiveSpec == ChanSpecInit /\ [][ChanNext]_vars /\ ChanFairness

\* ===================================================================
\* The key vault (litterbox/src/keys.rs)
\* ===================================================================
\* A call starts: what it is, and the object and the file as they are now.
Call(op, key_name, box) ==
    [op |-> op, key_name |-> key_name, box |-> box, result |-> "Pending",
     prompts |-> 0, wrong |-> 0, writes |-> 0]

\* One outcome of write_file taken by the running call: the file it leaves
\* and the count of failed saves.
Saved(out) ==
    /\ out.result = "Ok" \/ failed_writes < MaxFailedWrites
    /\ file' = out.file
    /\ failed_writes' = IF out.result = "Ok" THEN failed_writes
                                             ELSE failed_writes + 1

\* Lines 114-126: Keys::load.  Without a key file it goes on to
\* init_default, which asks for a new password (lines 97-101); a key file
\* that does not parse hits the unwrap of line 124.
Load ==
    /\ v_pc = "start"
    /\ IF file.state = "absent"
       THEN /\ v_pc' = "init_prompt"
            /\ v_call' = [Call("load", 0, 0) EXCEPT !.prompts = 1]
            /\ mem' = NoKeys
       ELSE IF file.state = "written"
       THEN /\ v_pc' = "ready"
            /\ v_call' = [Call("load", 0, 0) EXCEPT !.result = "Ok"]
            /\ mem' = from_ron(file.text)
       ELSE /\ v_pc' = "crashed"
            /\ v_call' = [Call("load", 0, 0) EXCEPT !.result = "panic"]
            /\ mem' = NoKeys
    /\ session' = NoSession
    /\ UNCHANGED <<file, failed_writes>>
    /\ UNCHANGED <<agent_vars, chan_vars, more_vars>>

\* Lines 103-111: init_default after the password was entered.
InitPassword(password, salt) ==
    /\ v_pc = "init_prompt"
    /\ LET s == [loaded |-> TRUE,
                 password_hash |-> hash_password(password, salt),
                 keys |-> <<>>]
       IN \E out \in save_to_file(s, file) :
            /\ Saved(out)
            /\ v_call' = [v_call EXCEPT !.result = out.result, !.writes = @ + 1]
            /\ IF out.result = "Ok"
               THEN mem' = s /\ v_pc' = "ready"
               ELSE mem' = NoKeys /\ v_pc' = "start"
    /\ UNCHANGED session
    /\ UNCHANGED <<agent_vars, chan_vars, more_vars>>

\* Variant: generate does not look for the name.
name_taken_never(ks, key_name) == FALSE

\* Variant: generate compares the name with the first key only.
name_taken_first(ks, key_name) ==
    Len(ks.keys) > 0 /\ ks.keys[1].name = key_name

\* Line 155: self.key_mut(key_name).is_some().
name_taken(ks, key_name) == key_mut(ks, key_name) # 0

\* Lines 154-159: generate up to its password prompt.
Generate(key_name) ==
    /\ v_pc = "ready"
    /\ IF name_taken(mem, key_name)
       THEN /\ v_call' = [Call("generate", key_name, 0) EXCEPT
                             !.result = "KeyAlreadyExists"]
            /\ UNCHANGED v_pc
       ELSE /\ v_call' = [Call("generate", key_name, 0) EXCEPT !.prompts = 1]
            /\ v_pc' = "generate_prompt"
    /\ session' = NoSession
    /\ UNCHANGED <<file, mem, failed_writes>>
    /\ UNCHANGED <<agent_vars, chan_vars, more_vars>>

\* Lines 142-146: the password entered at prompt_password does not verify;
\* the loop prompts again.
WrongPassword(password) ==
    /\ v_pc \in {"generate_prompt", "start_server_prompt"}
    /\ ~check_password(password, mem.password_hash)
    /\ v_call.wrong < MaxWrongEntries
    /\ v_call' = [v_call EXCEPT !.wrong = @ + 1, !.prompts = @ + 1]
    /\ UNCHANGED <<file, mem, v_pc, failed_writes, session>>
    /\ UNCHANGED <<agent_vars, chan_vars, more_vars>>

\* Lines 101, 140, 217: the prompt is aborted; the call ends with
\* PromptError.
AbortPrompt ==
    /\ v_pc \in {"init_prompt", "generate_prompt", "detach_prompt",
                 "start_server_prompt"}
    /\ v_call' = [v_call EXCEPT !.result = "PromptError"]
    /\ v_pc' = IF v_pc = "init_prompt" THEN "start" ELSE "ready"
    /\ UNCHANGED <<file, mem, failed_writes, session>>
    /\ UNCHANGED <<agent_vars, chan_vars, more_vars>>

\* Lines 142-143, 160-162: the password verifies; the new key is pushed and
\* the object saved.
GenerateVerified(password, key) ==
    /\ v_pc = "generate_prompt"
    /\ check_password(password, mem.password_hash)
    /\ LET new == [mem EXCEPT
                      !.keys = Append(@, Key_new(v_call.key_name, password, key))]
       IN \E out \in save_to_file(new, file) :
            /\ mem' = new
            /\ Saved(out)
            /\ v_call' = [v_call EXCEPT !.result = out.result, !.writes = @ + 1]
    /\ v_pc' = "ready"
    /\ UNCHANGED session
    /\ UNCHANGED <<agent_vars, chan_vars, more_vars>>

\* Variant: delete keeps only the keys in front of the named one.
delete_retain_front(keys, key_name) ==
    LET before(i) == \A j \in 1..i : keys[j].name # key_name
    IN [i \in 1..Cardinality({i \in 1..Len(keys) : before(i)}) |-> keys[i]]

\* Lines 167-174: Vec::retain keeps the keys that do not have the name, in
\* their order.
delete_retain(keys, key_name) ==
    LET keep(k) == k.name # key_name
    IN SelectSeq(keys, keep)

\* Lines 165-183: delete.
Delete(key_name) ==
    /\ v_pc = "ready"
    /\ LET found == \E i \in 1..Len(mem.keys) : mem.keys[i].name = key_name
           new == [mem EXCEPT !.keys = delete_retain(@, key_name)]
       IN /\ mem' = new
          /\ IF ~found
             THEN /\ v_call' = [Call("delete", key_name, 0) EXCEPT
                                   !.result = "KeyDoesNotExist"]
                  /\ UNCHANGED <<file, failed_writes>>
             ELSE \E out \in save_to_file(new, file) :
                    /\ Saved(out)
                    /\ v_call' = [Call("delete", key_name, 0) EXCEPT
                                     !.result = out.result, !.writes = 1]
    /\ session' = NoSession
    /\ UNCHANGED v_pc
    /\ UNCHANGED <<agent_vars, chan_vars, more_vars>>

\* Variant: attach does not look at the attachment list.
already_attached_never(key, litterbox_name) == FALSE

\* Lines 188-191: key.attached_litterboxes.iter().any(..).
already_attached(key, litterbox_name) ==
    \E j \in 1..Len(key.attached_litterboxes) :
        key.attached_litterboxes[j] = litterbox_name

\* Lines 185-207: attach.
Attach(key_name, litterbox_name) ==
    /\ v_pc = "ready"
    /\ LET i == key_mut(mem, key_name) IN
       IF i = 0
       THEN /\ v_call' = [Call("attach", key_name, litterbox_name) EXCEPT
                             !.result = "KeyDoesNotExist"]
            /\ UNCHANGED <<mem, file, failed_writes>>
       ELSE IF already_attached(mem.keys[i], litterbox_name)
       THEN /\ v_call' = [Call("attach", key_name, litterbox_name) EXCEPT
                             !.result = "AlreadyAttachedToKey"]
            /\ UNCHANGED <<mem, file, failed_writes>>
       ELSE LET new == [mem EXCEPT !.keys[i].attached_litterboxes =
                                       Append(@, litterbox_name)]
            IN \E out \in save_to_file(new, file) :
                 /\ mem' = new
                 /\ Saved(out)
                 /\ v_call' = [Call("attach", key_name, litterbox_name) EXCEPT
                                  !.result = out.result, !.writes = 1]
    /\ session' = NoSession
    /\ UNCHANGED v_pc
    /\ UNCHANGED <<agent_vars, chan_vars, more_vars>>

\* Lines 209-217, 227: detach up to its multi-select.
Detach(key_name) ==
    /\ v_pc = "ready"
    /\ IF key_mut(mem, key_name) = 0
       THEN /\ v_call' = [Call("detach", key_name, 0) EXCEPT
                             !.result = "KeyDoesNotExist"]
            /\ UNCHANGED v_pc
       ELSE /\ v_call' = [Call("detach", key_name, 0) EXCEPT !.prompts = 1]
            /\ v_pc' = "detach_prompt"
    /\ session' = NoSession
    /\ UNCHANGED <<file, mem, failed_writes>>
    /\ UNCHANGED <<agent_vars, chan_vars, more_vars>>

\* Lines 219-222: the user has chosen to_remove among the attached
\* litterboxes; the others are retained and the object saved.
DetachSelect(to_remove) ==
    /\ v_pc = "detach_prompt"
    /\ LET i == key_mut(mem, v_call.key_name)
           attached == mem.keys[i].attached_litterboxes
           keep(name) == name \notin to_remove
           new == [mem EXCEPT !.keys[i].attached_litterboxes = SelectSeq(@, keep)]
       IN /\ to_remove \subseteq {attached[j] : j \in 1..Len(attached)}
          /\ \E out \in save_to_file(new, file) :
               /\ mem' = new
               /\ Saved(out)
               /\ v_call' = [v_call EXCEPT !.result = out.result, !.writes = @ + 1]
    /\ v_pc' = "ready"
    /\ UNCHANGED session
    /\ UNCHANGED <<agent_vars, chan_vars, more_vars>>

\* Lines 231-233: start_server up to its password prompt.
StartServer(lbx_name) ==
    /\ v_pc = "ready"
    /\ v_call' = [Call("start_server", 0, lbx_name) EXCEPT !.prompts = 1]
    /\ v_pc' = "start_server_prompt"
    /\ session' = [NoSession EXCEPT !.box = lbx_name]
    /\ UNCHANGED <<file, mem, failed_writes>>
    /\ UNCHANGED <<agent_vars, chan_vars, more_vars>>

\* Variant: start_server takes every key of the vault.
keys_for_all(ks, lbx_name) == ks.keys

\* Lines 234-237: the keys whose attached_litterboxes contain lbx_name.
keys_for(ks, lbx_name) ==
    LET attached_to(k) ==
            \E j \in 1..Len(k.attached_litterboxes) :
                k.attached_litterboxes[j] = lbx_name
    IN SelectSeq(ks.keys, attached_to)

\* Lines 244-254: the loop over the filtered keys, add_identity failing at
\* the key after the first n: what was decrypted and what was registered.
register_keys(keys, password, n) ==
    LET plain(i) == decode_pkcs8(keys[i].encrypted_key, password)
        tried == IF n < Len(keys) THEN n + 1 ELSE n
    IN [panicked |-> \E i \in 1..tried : ~plain(i).ok,
        decrypted |-> [i \in 1..tried |-> keys[i].name],
        registered |-> [i \in 1..n |-> plain(i).key],
        result |-> IF n = Len(keys) THEN "Ok" ELSE "RegisterKey"]

\* Lines 233-256: the password verifies; the socket is connected (or not)
\* and the attached keys are decrypted and registered one by one.
StartVerified(password) ==
    /\ v_pc = "start_server_prompt"
    /\ check_password(password, mem.password_hash)
    /\ \/ /\ v_call' = [v_call EXCEPT !.result = "ConnectSocket"]
          /\ session' = [session EXCEPT !.verified = TRUE]
          /\ v_pc' = "ready"
       \/ \E n \in 0..Len(keys_for(mem, session.box)) :
            LET reg == register_keys(keys_for(mem, session.box), password, n) IN
            /\ session' = [session EXCEPT !.verified = TRUE,
                                          !.decrypted = reg.decrypted,
                                          !.registered = reg.registered]
            /\ v_call' = [v_call EXCEPT
                             !.result = IF reg.panicked THEN "panic" ELSE reg.result]
            /\ v_pc' = IF reg.panicked THEN "crashed" ELSE "ready"
    /\ UNCHANGED <<file, mem, failed_writes>>
    /\ UNCHANGED <<agent_vars, chan_vars, more_vars>>

\* The process that held the Keys object ends; the key file stays.
Exit ==
    /\ v_pc \in {"ready", "crashed"}
    /\ v_pc' = "start"
    /\ mem' = NoKeys
    /\ UNCHANGED <<file, v_call, failed_writes, session>>
    /\ UNCHANGED <<agent_vars, chan_vars, more_vars>>

VaultNext ==
    \/ Load
    \/ \E password \in Passwords : \E salt \in Salts : InitPassword(password, salt)
    \/ \E key_name \in KeyNames : Generate(key_name)
    \/ \E password \in Passwords : WrongPassword(password)
    \/ AbortPrompt
    \/ \E password \in Passwords : \E key \in KeyPairs :
           GenerateVerified(password, key)
    \/ \E key_name \in KeyNames : Delete(key_name)
    \/ \E key_name \in KeyNames : \E box \in Boxes : Attach(key_name, box)
    \/ \E key_name \in KeyNames : Detach(key_name)
    \/ \E to_remove \in SUBSET Boxes : DetachSelect(to_remove)
    \/ \E box \in Boxes : StartServer(box)
    \/ \E password \in Passwords : StartVerified(password)
    \/ Exit

\* The vault on its own: agent and channel transport stay as built.
VaultSpecInit ==
    AgentInit /\ built = "default" /\ ChanInit /\ VaultInit /\ MoreInit

VaultSpec == VaultSpecInit /\ [][VaultNext]_vars

\* ===================================================================
\* Several callers on one key file (keys.rs lines 84-126)
\* ===================================================================
\* A key file as init_default leaves it: a password hash and no keys.
InitialVault ==
    [loaded |-> TRUE,
     password_hash |-> hash_password("hunter2", "salt-a"),
     keys |-> <<>>]

\* Lines 114-126: load by caller p into a Keys object of its own; nothing
\* locks the key file while the object exists (line 85).  The key file
\* exists; one that does not parse hits the unwrap of line 124.
RLoad(p) ==
    /\ r_pc[p] = "start"
    /\ file.state # "absent"
    /\ IF file.state = "written"
       THEN /\ r_pc' = [r_pc EXCEPT ![p] = "ready"]
            /\ r_mem' = [r_mem EXCEPT ![p] = from_ron(file.text)]
       ELSE /\ r_pc' = [r_pc EXCEPT ![p] = "crashed"]
            /\ UNCHANGED r_mem
    /\ UNCHANGED <<r_acked, r_count, vault_vars>>
    /\ UNCHANGED <<agent_vars, chan_vars, sock_vars, pure_vars>>

\* The save at the end of a call by caller p, which leaves it with the
\* Keys object new: the key file, and on Ok the changes acknowledged.
RSave(p, new, acked) ==
    /\ r_count < MaxMutations
    /\ \E out \in save_to_file(new, file) :
          /\ Saved(out)
          /\ r_mem' = [r_mem EXCEPT ![p] = new]
          /\ IF out.result = "Ok"
             THEN r_acked' = acked /\ r_count' = r_count + 1
             ELSE UNCHANGED <<r_acked, r_count>>
    /\ UNCHANGED <<r_pc, mem, v_pc, v_call, session>>
    /\ UNCHANGED <<agent_vars, chan_vars, sock_vars, pure_vars>>

\* Lines 154-163: generate by caller p, the user entering a password that
\* verifies.
RGenerate(p, key_name) ==
    /\ r_pc[p] = "ready"
    /\ ~name_taken(r_mem[p], key_name)
    /\ \E password \in Passwords : \E key \in KeyPairs :
          /\ check_password(password, r_mem[p].password_hash)
          /\ RSave(p,
                   [r_mem[p] EXCEPT
                       !.keys = Append(@, Key_new(key_name, password, key))],
                   r_acked \cup {<<"key", key_name, 0>>})

\* Lines 165-183: delete by caller p of a key its Keys object has.
RDelete(p, key_name) ==
    /\ r_pc[p] = "ready"
    /\ key_mut(r_mem[p], key_name) # 0
    /\ RSave(p,
             [r_mem[p] EXCEPT !.keys = delete_retain(@, key_name)],
             {a \in r_acked : a[2] # key_name})

\* Lines 185-207: attach by caller p to a key its Keys object has.
RAttach(p, key_name, litterbox_name) ==
    /\ r_pc[p] = "ready"
    /\ key_mut(r_mem[p], key_name) # 0
    /\ ~already_attached(r_mem[p].keys[key_mut(r_mem[p], key_name)],
                         litterbox_name)
    /\ RSave(p,
             [r_mem[p] EXCEPT
                 !.keys[key_mut(r_mem[p], key_name)].attached_litterboxes =
                     Append(@, litterbox_name)],
             r_acked \cup {<<"pair", key_name, litterbox_name>>})

\* The process of caller p ends.
RExit(p) ==
    /\ r_pc[p] \in {"ready", "crashed"}
    /\ r_pc' = [r_pc EXCEPT ![p] = "start"]
    /\ UNCHANGED <<r_mem, r_acked, r_count, vault_vars>>
    /\ UNCHANGED <<agent_vars, chan_vars, sock_vars, pure_vars>>

RaceNext ==
    \/ \E p \in Callers : RLoad(p)
    \/ \E p \in Callers : \E key_name \in KeyNames : RGenerate(p, key_name)
    \/ \E p \in Callers : \E key_name \in KeyNames : RDelete(p, key_name)
    \/ \E p \in Callers : \E key_name \in KeyNames : \E box \in Boxes :
           RAttach(p, key_name, box)
    \/ \E p \in Callers : RExit(p)

\* The key file has been initialised; the callers come after that.
RaceSpecInit ==
    /\ AgentInit /\ built = "default"
    /\ ChanInit
    /\ file = [state |-> "written", text |-> to_ron(InitialVault)]
    /\ mem = NoKeys /\ v_pc = "start" /\ v_call = NoCall
    /\ failed_writes = 0 /\ session = NoSession
    /\ MoreInit

RaceSpec == RaceSpecInit /\ [][RaceNext]_vars

\* ===================================================================
\* The socket file of one litterbox (files.rs lines 39-80)
\* ===================================================================
\* fs::exists on the socket path.
exists(f) == f.kind # "none"

\* What a process that starts finds at the socket path: nothing, the
\* placeholder of a build, the socket of a server that still serves, or
\* one left over by a server that is gone.
found_at_path(f) ==
    IF f.kind = "none" THEN "none"
    ELSE IF f.kind = "placeholder" THEN "placeholder"
    ELSE IF srv[f.by].pc = "serving" THEN "live"
    ELSE "leftover"

\* Variant: new leaves a file that is already at the path where it is.
SshSockFile_new_keep(f, create_empty_placeholder) ==
    IF exists(f)
    THEN { [result |-> "Ok", sock |-> f] }
    ELSE IF create_empty_placeholder
         THEN { [result |-> "Ok", sock |-> [kind |-> "placeholder", by |-> 0]] }
         ELSE { [result |-> "Ok", sock |-> f] }

\* files.rs lines 44-63, SshSockFile::new: a file at the path is removed;
\* only when there was none, the directory is made and, if asked for, an
\* empty placeholder created.  Each file system call may fail.
SshSockFile_new(f, create_empty_placeholder) ==
    { [result |-> "ExistsFailed", sock |-> f] } \cup
    (IF exists(f)
     THEN { [result |-> "Ok", sock |-> NoSock],
            [result |-> "RemoveFailed", sock |-> f] }
     ELSE { [result |-> "DirUncreatable", sock |-> f] } \cup
          (IF create_empty_placeholder
           THEN { [result |-> "Ok", sock |-> [kind |-> "placeholder", by |-> 0]],
                  [result |-> "CreateFailed", sock |-> f] }
           ELSE { [result |-> "Ok", sock |-> f] }))

\* files.rs lines 70-80, Drop for SshSockFile: whatever is at the path is
\* removed; a failure to remove is logged.
SshSockFile_drop(f) ==
    IF exists(f) THEN {NoSock, f} ELSE {f}

\* agent.rs lines 188-189, UnixListener::bind: fails when there is a file
\* at the path, else creates the socket file of server s.
bind(f, s) ==
    IF exists(f)
    THEN [ok |-> FALSE, sock |-> f]
    ELSE [ok |-> TRUE, sock |-> [kind |-> "socket", by |-> s]]

\* agent.rs lines 183-207, start_ssh_agent in server process s: new, then
\* bind (whose failure panics at the expect of line 189), then the server
\* task is spawned and owns the SshSockFile.
StartSshAgent(s) ==
    /\ srv[s].pc = "off"
    /\ \E new \in SshSockFile_new(sock, FALSE) :
          IF new.result # "Ok"
          THEN /\ srv' = [srv EXCEPT ![s] = [pc |-> "failed",
                                             found |-> found_at_path(sock)]]
               /\ sock' = new.sock
          ELSE LET bound == bind(new.sock, s) IN
               /\ srv' = [srv EXCEPT
                             ![s] = [pc |-> IF bound.ok THEN "serving"
                                                        ELSE "panicked",
                                     found |-> found_at_path(sock)]]
               /\ sock' = bound.sock
    /\ UNCHANGED bld
    /\ UNCHANGED <<agent_vars, chan_vars, vault_vars, race_vars, pure_vars>>

\* The server task of process s ends and drops the SshSockFile it owns.
ServerTaskEnds(s) ==
    /\ srv[s].pc = "serving"
    /\ sock' \in SshSockFile_drop(sock)
    /\ srv' = [srv EXCEPT ![s] = [pc |-> "off", found |-> "none"]]
    /\ UNCHANGED bld
    /\ UNCHANGED <<agent_vars, chan_vars, vault_vars, race_vars, pure_vars>>

\* Server process s is killed: nothing is dropped, the socket file stays.
ServerCrash(s) ==
    /\ srv[s].pc = "serving"
    /\ srv' = [srv EXCEPT ![s] = [pc |-> "off", found |-> "none"]]
    /\ UNCHANGED <<sock, bld>>
    /\ UNCHANGED <<agent_vars, chan_vars, vault_vars, race_vars, pure_vars>>

\* A process whose start failed or panicked is over.
ServerGivesUp(s) ==
    /\ srv[s].pc \in {"failed", "panicked"}
    /\ srv' = [srv EXCEPT ![s] = [pc |-> "off", found |-> "none"]]
    /\ UNCHANGED <<sock, bld>>
    /\ UNCHANGED <<agent_vars, chan_vars, vault_vars, race_vars, pure_vars>>

\* podman.rs line 277, build_litterbox: SshSockFile::new(lbx_name, true).
BuildNew ==
    /\ bld = "off"
    /\ \E new \in SshSockFile_new(sock, TRUE) :
          /\ sock' = new.sock
          /\ bld' = IF new.result = "Ok" THEN "holding" ELSE "failed"
    /\ UNCHANGED srv
    /\ UNCHANGED <<agent_vars, chan_vars, vault_vars, race_vars, pure_vars>>

\* build_litterbox returns (or fails later on): ssh_sock goes out of scope.
BuildDrop ==
    /\ bld = "holding"
    /\ sock' \in SshSockFile_drop(sock)
    /\ bld' = "off"
    /\ UNCHANGED srv
    /\ UNCHANGED <<agent_vars, chan_vars, vault_vars, race_vars, pure_vars>>

\* The build process is killed, or its SshSockFile::new had failed.
BuildOver ==
    /\ bld \in {"holding", "failed"}
    /\ bld' = "off"
    /\ UNCHANGED <<sock, srv>>
    /\ UNCHANGED <<agent_vars, chan_vars, vault_vars, race_vars, pure_vars>>

SockNext ==
    \/ \E s \in Servers : StartSshAgent(s)
    \/ \E s \in Servers : ServerTaskEnds(s)
    \/ \E s \in Servers : ServerCrash(s)
    \/ \E s \in Servers : ServerGivesUp(s)
    \/ BuildNew
    \/ BuildDrop
    \/ BuildOver

SockSpecInit ==
    AgentInit /\ built = "default" /\ ChanInit /\ VaultInit /\ MoreInit

SockSpec == SockSpecInit /\ [][SockNext]_vars

\* ===================================================================
\* Password hashing and key encryption on their own (keys.rs lines 12-60)
\* ===================================================================
\* The passwords of the vault and those of the unit tests (lines 276, 281,
\* 286).
PurePasswords ==
    Passwords \cup {"some_random_pass", "wrong_pass", "SomePassword"}

PureSalts == {"salt-a", "salt-b"}

\* Line 103 and lines 17-28: the password is hashed.
Hash ==
    /\ t_pc = "drawn"
    /\ t_out' = [t_out EXCEPT !.hash = hash_password(t_in.password, t_in.salt)]
    /\ t_pc' = "hashed"
    /\ UNCHANGED t_in
    /\ UNCHANGED <<agent_vars, chan_vars, vault_vars, race_vars, sock_vars>>

\* Line 142: an entered password is checked against the hash.
Verify(entered) ==
    /\ t_pc = "hashed"
    /\ t_out' = [t_out EXCEPT !.tried = entered,
                              !.verified = check_password(entered, t_out.hash)]
    /\ UNCHANGED <<t_pc, t_in>>
    /\ UNCHANGED <<agent_vars, chan_vars, vault_vars, race_vars, sock_vars>>

\* Lines 48-60: the key pair drawn is encrypted under the password.
Encrypt ==
    /\ t_pc = "hashed"
    /\ t_out' = [t_out EXCEPT
                    !.ciphertext =
                        Key_new(1, t_in.password, t_in.key).encrypted_key,
                    !.tried = "None", !.verified = FALSE]
    /\ t_pc' = "encrypted"
    /\ UNCHANGED t_in
    /\ UNCHANGED <<agent_vars, chan_vars, vault_vars, race_vars, sock_vars>>

\* Lines 87-93: a vault that holds the key is serialised for the key file.
Persist ==
    /\ t_pc = "encrypted"
    /\ t_out' = [t_out EXCEPT
                    !.stored = to_ron([loaded |-> TRUE,
                                       password_hash |-> t_out.hash,
                                       keys |-> <<[Key_new(1, t_in.password, t_in.key)
                                                     EXCEPT !.encrypted_key =
                                                         t_out.ciphertext]>>])]
    /\ t_pc' = "persisted"
    /\ UNCHANGED t_in
    /\ UNCHANGED <<agent_vars, chan_vars, vault_vars, race_vars, sock_vars>>

\* Lines 121-125: the vault is read back and the key's ciphertext taken.
Reload ==
    /\ t_pc = "persisted"
    /\ t_out' = [t_out EXCEPT
                    !.loaded = from_ron(t_out.stored).keys[1].encrypted_key]
    /\ t_pc' = "reloaded"
    /\ UNCHANGED t_in
    /\ UNCHANGED <<agent_vars, chan_vars, vault_vars, race_vars, sock_vars>>

\* Lines 247-248 and 292: the ciphertext, fresh or read back, is decrypted
\* with an entered password.
Decrypt(entered) ==
    /\ t_pc \in {"encrypted", "reloaded"}
    /\ t_out' = [t_out EXCEPT
                    !.tried = entered,
                    !.decrypted =
                        decode_pkcs8(IF t_pc = "reloaded" THEN t_out.loaded
                                                          ELSE t_out.ciphertext,
                                     entered)]
    /\ t_pc' = "decrypted"
    /\ UNCHANGED t_in
    /\ UNCHANGED <<agent_vars, chan_vars, vault_vars, race_vars, sock_vars>>

PureNext ==
    \/ Hash
    \/ \E entered \in PurePasswords : Verify(entered)
    \/ Encrypt
    \/ Persist
    \/ Reload
    \/ \E entered \in PurePasswords : Decrypt(entered)

\* A password, a salt and a key pair have been drawn.
PureSpecInit ==
    /\ AgentInit /\ built = "default"
    /\ ChanInit /\ VaultInit /\ RaceInit /\ SockInit
    /\ t_pc = "drawn"
    /\ t_in \in [password : PurePasswords, salt : PureSalts, key : KeyPairs]
    /\ t_out = NoOutput

PureSpec == PureSpecInit /\ [][PureNext]_vars

\* ===================================================================
\* Properties
\* ===================================================================
Locked == agent_state.locked

Approved_for_session == agent_state.approved_for_session

\* C1: on a locked agent whose approved_for_session flag is false, every
\* request that is awaiting its answer or has returned has started exactly
\* one prompt process; none has returned without one.
C1_OnePromptPerRequest ==
    \A c \in Conns :
        (Locked /\ ~Approved_for_session
            /\ pc[c] \in {"await_output", "returned"})
        => prompts[c] = 1

\* Two RequestKeys requests, both returned, each after its own prompt,
\* with the flag still false.
C1_Witness ==
    /\ Locked /\ ~Approved_for_session
    /\ \A c \in Conns :
          /\ pc[c] = "returned"
          /\ request[c] = "RequestKeys"
          /\ prompts[c] = 1

\* C2: on an agent that is not locked no prompt process is ever started,
\* every returned request was approved, and no step changes AgentState.
C2_UnlockedApprovesWithoutPrompt ==
    /\ [](\A c \in Conns :
            ~Locked => /\ child[c].phase = "none"
                       /\ prompts[c] = 0
                       /\ pc[c] \notin {"check_session", "await_output", "panicked"}
                       /\ (pc[c] = "returned" => result[c]))
    /\ [][~Locked => agent_state' = agent_state]_vars

\* An unlocked agent has returned true for a Sign and for a Lock request.
C2_Witness ==
    /\ ~Locked
    /\ \E c, d \in Conns :
          /\ pc[c] = "returned" /\ request[c] = "Sign" /\ result[c]
          /\ pc[d] = "returned" /\ request[d] = "Lock" /\ result[d]

\* C3: approved_for_session is set once a confirmation completed with
\* ApprovedForSession and is never reset; on a locked agent with the flag
\* set, the session check returns true without a prompt for RequestKeys
\* and does not return for any other kind (it starts a prompt instead).
C3_SessionApprovalSticksForRequestKeys ==
    /\ [](session_answers => Approved_for_session)
    /\ [][Approved_for_session => agent_state'.approved_for_session]_vars
    /\ [][\A c \in Conns :
            (/\ Locked /\ Approved_for_session
             /\ pc[c] = "check_session" /\ pc'[c] # "check_session")
            => IF request[c] = "RequestKeys"
               THEN pc'[c] = "returned" /\ result'[c] /\ prompts'[c] = 0
                    /\ child'[c].phase = "none"
               ELSE pc'[c] \in {"await_output", "panicked"}
                    /\ (pc'[c] = "await_output" => prompts'[c] = 1)]_vars

\* After an ApprovedForSession answer a later RequestKeys has returned true
\* without a prompt.
C3_Witness ==
    /\ Locked /\ session_answers
    /\ \E c, d \in Conns :
          /\ pc[d] = "returned" /\ resp[d] = "ApprovedForSession"
          /\ request[d] = "RequestKeys"
          /\ pc[c] = "returned" /\ resp[c] = "None"
          /\ request[c] = "RequestKeys" /\ result[c] /\ prompts[c] = 0

\* C4: an AgentState built by AgentState::default() is locked and not
\* approved for the session.
C4_DefaultStateIsLocked ==
    built = "default" => (Locked /\ ~Approved_for_session)

\* C5: when the prompt process cannot be started, confirm_request has
\* returned false.
C5_FailClosedOnSpawnFailure ==
    \A c \in Conns :
        child[c].phase = "spawn_failed" => (pc[c] = "returned" /\ ~result[c])

\* The set of well-formed outputs of a prompt process: one token, one newline.
WellFormedOutputs == {println(UserResponse_to_string(r)) : r \in UserResponse}

\* C6: the step in which the handler consumes a prompt process result
\* that is not a clean exit with one well-formed token line is a return of
\* false: the handler neither approves nor panics.
C6_MalformedResultIsDenied ==
    [][\A c \in Conns :
          (/\ pc[c] = "await_output" /\ pc'[c] # "await_output"
           /\ (~success(child[c].status) \/ child[c].stdout \notin WellFormedOutputs))
          => (pc'[c] = "returned" /\ ~result'[c])]_vars

\* C7: the step that completes a confirmation answered Approved returns
\* true, the one answered Declined returns false, and neither changes
\* AgentState.
C7_PlainAnswersLeaveStateAlone ==
    [][\A c \in Conns :
          (/\ pc[c] = "await_output"
           /\ pc'[c] = "returned"
           /\ resp'[c] \in {"Approved", "Declined"})
          => /\ agent_state' = agent_state
             /\ result'[c] = (resp'[c] = "Approved")]_vars

\* Two Sign requests on a locked agent, one answered Approved and allowed,
\* one answered Declined and denied, each after its own prompt, the state
\* as it was.
C7_Witness ==
    /\ agent_state = AgentState_locked
    /\ \E c, d \in Conns :
          /\ pc[c] = "returned" /\ request[c] = "Sign"
          /\ resp[c] = "Approved" /\ result[c] /\ prompts[c] = 1
          /\ pc[d] = "returned" /\ request[d] = "Sign"
          /\ resp[d] = "Declined" /\ ~result[d] /\ prompts[d] = 1

\* C8: a confirmation dialog that has ended holds ApprovedForSession only
\* if it was started for RequestKeys; for the other kinds it holds Approved
\* or Declined.
C8_SessionButtonOnlyForRequestKeys ==
    \A c \in Conns :
        (child[c].phase = "exited" /\ child[c].user_request \in UserRequest
            /\ success(child[c].status))
        => /\ child[c].user_response \in UserResponse
           /\ (child[c].user_request # "RequestKeys"
                  => child[c].user_response \in {"Approved", "Declined"})

\* One dialog for RequestKeys ended with ApprovedForSession, one for Sign
\* ended with Approved.
C8_Witness ==
    \E c, d \in Conns :
        /\ child[c].phase = "exited" /\ child[c].user_request = "RequestKeys"
        /\ child[c].user_response = "ApprovedForSession"
        /\ child[d].phase = "exited" /\ child[d].user_request = "Sign"
        /\ child[d].user_response = "Approved"

\* C9: in every reachable state approved_for_session is true exactly if
\* some confirmation has completed with ApprovedForSession.
C9_FlagIffSessionAnswer == Approved_for_session = session_answers

\* Two RequestKeys requests that were pending together have both been
\* answered ApprovedForSession and the flag is set.
C9_Witness ==
    /\ Approved_for_session
    /\ \A c \in Conns :
          /\ pc[c] = "returned" /\ request[c] = "RequestKeys"
          /\ resp[c] = "ApprovedForSession" /\ prompts[c] = 1

\* C10: while some other handler awaits its prompt's answer, a handler whose
\* request needs no prompt can take its next step, and that step at the
\* session check is its return.
C10_PendingPromptBlocksNoOne ==
    \A c \in Conns :
        (/\ \E d \in Conns \ {c} : pc[d] = "await_output"
         /\ \/ ~Locked
            \/ request[c] = "RequestKeys" /\ Approved_for_session)
        => /\ pc[c] = "check_locked" => ENABLED CheckLocked(c)
           /\ pc[c] = "check_session" =>
                  ENABLED (CheckSession(c) /\ pc'[c] = "returned")

\* A RequestKeys request that arrived while another request was awaiting
\* its answer has returned true without a prompt, the other still waiting.
C10_Witness ==
    \E c, d \in Conns :
        /\ c # d
        /\ pc[d] = "await_output" /\ child[d].phase = "dialog"
        /\ pc[c] = "returned" /\ overtaking[c]
        /\ result[c] /\ prompts[c] = 0

\* C11: the main loop sends at most once on each one-shot channel, and
\* exactly once as soon as it is through with that channel's request
\* (after a user answer, an abnormal dialog exit or a failed fork); a
\* handler that has returned returned true exactly if the dialog shown for
\* its own request ended with Yes.
C11_OneAnswerOnOwnSlot ==
    /\ \A r \in Rids :
          /\ sends[r] <= 1
          /\ sends[r] = 1 <=>
                 (/\ user_answer[r] # "none"
                  /\ ~(disp.pc = "waitpid" /\ disp.item.tx = r))
    /\ \A c \in Conns :
          h_pc[c] = "returned" =>
              h_result[c] = (user_answer[h_rid[c]] = "yes")

\* Three requests: one answered Yes and returned true, one whose dialog was
\* killed and returned false, one whose fork failed and was answered once.
C11_Witness ==
    /\ \E c, d \in Conns :
          /\ c # d
          /\ h_pc[c] = "returned" /\ h_result[c]
          /\ user_answer[h_rid[c]] = "yes"
          /\ h_pc[d] = "returned" /\ ~h_result[d]
          /\ user_answer[h_rid[d]] = "killed"
    /\ \E r \in Rids : user_answer[r] = "fork_failed" /\ sends[r] = 1

\* C12: a send on the one-shot channel of a handler that is gone stores
\* nothing, is recorded as a send error and leaves the main loop at recv;
\* the main loop is never anywhere but at recv or in waitpid, and at recv
\* with a request queued it can take that request.
C12_AnswerToGoneHandlerIsDiscarded ==
    /\ [][\A r \in Rids :
            (/\ sends'[r] = sends[r] + 1
             /\ \E c \in Conns : h_pc[c] = "gone" /\ h_rid[c] = r)
            => (/\ send_error'[r]
                /\ oneshot'[r].value = <<>>
                /\ disp'.pc = "recv")]_vars
    /\ [](disp.pc \in {"recv", "waitpid"})
    /\ []((disp.pc = "recv" /\ conf_req # <<>>) => ENABLED DispRecvFork)

\* The answer to a handler that was gone has been discarded with a send
\* error, and a request that came after it was answered and its handler
\* has returned that answer.
C12_Witness ==
    \E r, q \in Rids :
        /\ r < q
        /\ send_error[r] /\ sends[r] = 1 /\ oneshot[r].value = <<>>
        /\ \E c \in Conns : h_pc[c] = "gone" /\ h_rid[c] = r
        /\ \E c \in Conns :
              h_pc[c] = "returned" /\ h_rid[c] = q /\ h_result[c]

\* ------------------------------------------------------------- the vault
\* A call of op begins with this step.
CallStarts(op) == v_pc = "ready" /\ v_call' # v_call /\ v_call'.op = op

\* The vault has a key of that name.
HasKey(ks, key_name) == \E i \in 1..Len(ks.keys) : ks.keys[i].name = key_name

\* The litterboxes on the attachment lists of the keys of that name.
AttachedTo(ks, key_name) ==
    {b \in Boxes :
        \E i \in 1..Len(ks.keys) :
            /\ ks.keys[i].name = key_name
            /\ \E j \in 1..Len(ks.keys[i].attached_litterboxes) :
                   ks.keys[i].attached_litterboxes[j] = b}

\* The key file holds the Keys object ks in full.
FileHolds(f, ks) == f.state = "written" /\ from_ron(f.text) = ks

\* C13: generate(name) for a name the vault already has ends at once with
\* KeyAlreadyExists, before any password prompt, and leaves the Keys object
\* and the key file exactly as they were.
C13_DuplicateGenerateChangesNothing ==
    [][\A n \in KeyNames :
          (CallStarts("generate") /\ v_call'.key_name = n /\ HasKey(mem, n))
          => (/\ v_call'.result = "KeyAlreadyExists"
              /\ v_call'.prompts = 0
              /\ v_pc' = "ready"
              /\ mem' = mem
              /\ file' = file)]_vars

\* generate has been refused for a name that a vault of two keys holds.
C13_Witness ==
    /\ v_call.op = "generate" /\ v_call.result = "KeyAlreadyExists"
    /\ HasKey(mem, v_call.key_name)
    /\ Len(mem.keys) = 2
    /\ FileHolds(file, mem)

\* The attachment list of the first key of that name.
AttachmentsOf(ks, key_name) == ks.keys[key_mut(ks, key_name)].attached_litterboxes

\* seq has no element twice.
NoRepeats(seq) == \A i, j \in 1..Len(seq) : seq[i] = seq[j] => i = j

\* C14: attach(key, box) is refused with KeyDoesNotExist when the key is
\* missing and with AlreadyAttachedToKey, changing neither the Keys object
\* nor the key file, when box is on the key's list; otherwise it appends
\* box to that key's list and to nothing else, and can succeed.  A box
\* that detach has taken off the list is off the list, so attach can
\* succeed for it again.
C14_AttachOncePerPair ==
    /\ [][\A n \in KeyNames : \A b \in Boxes :
             (CallStarts("attach") /\ v_call'.key_name = n /\ v_call'.box = b)
             => IF ~HasKey(mem, n)
                THEN v_call'.result = "KeyDoesNotExist"
                ELSE IF b \in AttachedTo(mem, n)
                THEN /\ v_call'.result = "AlreadyAttachedToKey"
                     /\ mem' = mem
                     /\ file' = file
                ELSE /\ v_call'.result \in {"Ok", "WriteFailed"}
                     /\ mem' = [mem EXCEPT
                                   !.keys[key_mut(mem, n)].attached_litterboxes =
                                       Append(@, b)]]_vars
    /\ [][v_call'.op = "attach" /\ v_call'.result = "Ok" /\ v_call' # v_call
             => /\ HasKey(mem, v_call'.key_name)
                /\ v_call'.box \notin AttachedTo(mem, v_call'.key_name)]_vars
    /\ [](\A n \in KeyNames : \A b \in Boxes :
             (v_pc = "ready" /\ HasKey(mem, n) /\ b \notin AttachedTo(mem, n))
             => ENABLED (Attach(n, b) /\ v_call'.result = "Ok"))
    /\ [][v_pc = "detach_prompt" /\ v_pc' = "ready" /\ mem' # mem
             => \E b \in AttachedTo(mem, v_call.key_name) :
                    b \notin AttachedTo(mem', v_call.key_name)]_vars

\* The second attach of a pair has been refused; the key's list holds the
\* box once, and the key file holds the Keys object.
C14_Witness ==
    /\ v_call.op = "attach" /\ v_call.result = "AlreadyAttachedToKey"
    /\ v_call.box \in AttachedTo(mem, v_call.key_name)
    /\ NoRepeats(AttachmentsOf(mem, v_call.key_name))
    /\ FileHolds(file, mem)

\* C15: in the Keys object, and in a key file written in full, no two keys
\* have the same name and no attachment list holds a litterbox twice,
\* whatever calls were made and however they ended.
C15_NamesAndPairsUnique ==
    LET unique(ks) ==
            /\ \A i, j \in 1..Len(ks.keys) :
                   ks.keys[i].name = ks.keys[j].name => i = j
            /\ \A i \in 1..Len(ks.keys) :
                   NoRepeats(ks.keys[i].attached_litterboxes)
    IN /\ unique(mem)
       /\ file.state = "written" => unique(from_ron(file.text))

\* A full vault, every key attached to every litterbox, after a generate
\* that was refused.
C15_Witness ==
    /\ Len(mem.keys) = NumKeyNames
    /\ \A i \in 1..Len(mem.keys) :
          Len(mem.keys[i].attached_litterboxes) = NumBoxes
    /\ v_call.op = "generate" /\ v_call.result = "KeyAlreadyExists"

\* C16: delete, attach and detach for a name the vault does not have end
\* with KeyDoesNotExist without a prompt and without a write, and leave the
\* Keys object and the key file as they were.  delete for a name the vault
\* has takes the keys of that name out, keeps all others as they were and
\* in their order, and when it returns Ok the key file holds the result.
C16_MissingKeyAndDelete ==
    /\ [][\A n \in KeyNames :
             (/\ CallStarts("delete") \/ CallStarts("attach") \/ CallStarts("detach")
              /\ v_call'.key_name = n
              /\ ~HasKey(mem, n))
             => (/\ v_call'.result = "KeyDoesNotExist"
                 /\ v_call'.prompts = 0
                 /\ v_call'.writes = 0
                 /\ v_pc' = "ready"
                 /\ mem' = mem
                 /\ file' = file)]_vars
    /\ [][\A n \in KeyNames :
             (CallStarts("delete") /\ v_call'.key_name = n /\ HasKey(mem, n))
             => (/\ v_call'.result \in {"Ok", "WriteFailed"}
                 /\ ~HasKey(mem', n)
                 /\ LET other(k) == k.name # n
                    IN mem'.keys = SelectSeq(mem.keys, other)
                 /\ mem'.password_hash = mem.password_hash
                 /\ v_call'.result = "Ok" => FileHolds(file', mem'))]_vars

\* delete has removed the first of two keys; the second is left with its
\* attachment, and the key file holds just that.
C16_Witness ==
    /\ v_call.op = "delete" /\ v_call.result = "Ok"
    /\ Len(mem.keys) = 1
    /\ mem.keys[1].name # v_call.key_name
    /\ mem.keys[1].name = 1
    /\ Len(mem.keys[1].attached_litterboxes) = 1
    /\ FileHolds(file, mem)

\* The passwords whose hash with the stored salt is the stored hash.
Verifying(ks) ==
    {p \in Passwords : hash_password(p, ks.password_hash.salt) = ks.password_hash}

NamesAttachedTo(ks, lbx_name) ==
    LET on(i) == lbx_name \in AttachedTo(ks, ks.keys[i].name)
        RECURSIVE from(_)
        from(i) == IF i > Len(ks.keys) THEN <<>>
                   ELSE IF on(i) THEN <<ks.keys[i].name>> \o from(i + 1)
                   ELSE from(i + 1)
    IN from(1)

\* C18: during start_server for litterbox S and after it, as long as the
\* caller holds the Keys object, nothing is
\* decrypted or registered before the password was verified; start_server
\* never fails to decrypt; the keys decrypted are keys attached to S, in
\* vault order, each once; the keys registered are their private keys; and
\* when start_server returns Ok every key attached to S, and no other, has
\* been registered.
C18_SessionGetsExactlyAttachedKeys ==
    (v_call.op = "start_server" /\ mem.loaded) =>
        LET S == session.box
            names == NamesAttachedTo(mem, S)
        IN /\ S = v_call.box
           /\ ~session.verified =>
                  session.decrypted = <<>> /\ session.registered = <<>>
           /\ v_call.result # "panic"
           /\ Len(session.decrypted) <= Len(names)
           /\ session.decrypted = SubSeq(names, 1, Len(session.decrypted))
           /\ Len(session.registered) <= Len(session.decrypted)
           /\ \A i \in 1..Len(session.registered) :
                  \E p \in Verifying(mem) :
                      session.registered[i] =
                          decode_pkcs8(mem.keys[key_mut(mem, names[i])].encrypted_key,
                                       p).key
           /\ v_call.result = "Ok" =>
                  /\ session.verified
                  /\ session.decrypted = names
                  /\ Len(session.registered) = Len(names)

\* A session was started for a litterbox to which one of two keys is
\* attached: that key was registered, the other was not touched.
C18_Witness ==
    /\ v_call.op = "start_server" /\ v_call.result = "Ok"
    /\ Len(mem.keys) = 2
    /\ Len(session.registered) = 1
    /\ session.decrypted = NamesAttachedTo(mem, session.box)
    /\ \E i \in 1..2 : mem.keys[i].attached_litterboxes = <<>>

\* C19: after generate, delete, attach or detach has returned Ok, the key
\* file is written in full and reading it back gives the Keys object the
\* caller holds: password hash, keys, ciphertexts and attachment lists.
C19_FileHoldsWholeVaultAfterSuccess ==
    (/\ v_pc = "ready"
     /\ v_call.op \in {"generate", "delete", "attach", "detach"}
     /\ v_call.result = "Ok")
    => FileHolds(file, mem)

\* detach has returned Ok on a vault of two keys that still has an
\* attachment.
C19_Witness ==
    /\ v_pc = "ready"
    /\ v_call.op = "detach" /\ v_call.result = "Ok"
    /\ Len(mem.keys) = 2
    /\ \E i \in 1..2 : mem.keys[i].attached_litterboxes # <<>>
    /\ FileHolds(file, mem)

\* C20: when the save fails in generate, delete, attach or detach, the call
\* returns the error and the Keys object the caller holds is as it was
\* before the call.
C20_FailedSaveCommitsNothing ==
    [][(/\ v_call'.op \in {"generate", "delete", "attach", "detach"}
        /\ v_call'.result = "WriteFailed"
        /\ v_call' # v_call)
       => mem' = mem]_vars

\* C21: load on a key file that is there but does not parse returns the
\* error ParseKeyFile to the caller, without crashing, without a Keys
\* object and without writing to the file.
C21_CorruptFileGivesParseError ==
    (v_call.op = "load" /\ v_call.writes = 0 /\ file.state = "cut short")
    => (/\ v_call.result = "ParseKeyFile"
        /\ v_pc = "start"
        /\ mem = NoKeys)

\* C22: with several callers on one key file, a key file written in full
\* holds every change whose call returned Ok and that no later successful
\* delete has taken back: every such key, and every such attachment.
C22_NoSuccessfulMutationIsLost ==
    file.state = "written" =>
        \A a \in r_acked :
            /\ HasKey(from_ron(file.text), a[2])
            /\ a[1] = "pair" => a[3] \in AttachedTo(from_ron(file.text), a[2])

\* C23: whatever servers for the litterbox were started, stopped or killed
\* before, and whatever they or a build left at the socket path, bind never
\* fails in start_ssh_agent; a server that found a file at the path and got
\* as far as serving has its own socket there at that moment.
C23_LeftoverSocketNeverBlocksBind ==
    /\ [](\A s \in Servers : srv[s].pc # "panicked")
    /\ [][\A s \in Servers :
             (srv[s].pc = "off" /\ srv'[s].pc = "serving")
             => sock' = [kind |-> "socket", by |-> s]]_vars

\* A server serves on its own socket after it found the socket file that a
\* killed server had left behind.
C23_Witness ==
    \E s \in Servers :
        /\ srv[s].pc = "serving" /\ srv[s].found = "leftover"
        /\ sock = [kind |-> "socket", by |-> s]

\* C24: while the server task of a process is running and no other server
\* process for the litterbox is, the socket that process bound is at the
\* socket path, whatever a build of the litterbox does meanwhile.
C24_SocketStaysWhileServerRuns ==
    \A s \in Servers :
        (srv[s].pc = "serving" /\ \A t \in Servers \ {s} : srv[t].pc = "off")
        => sock = [kind |-> "socket", by |-> s]

C27_LockedIsNeverWritten ==
    /\ [][agent_state'.locked = agent_state.locked]_vars
    /\ [](Locked <=> built = "caller")
    /\ [](\A c \in Conns : prompts[c] > 0 => built = "caller")

\* A Lock or Unlock request was approved in the dialog and has returned
\* true; the agent is locked as before.
C27_Witness ==
    \E c \in Conns :
        /\ pc[c] = "returned" /\ result[c]
        /\ request[c] \in {"Lock", "Unlock"}
        /\ dialog_end[c] = "Approve"
        /\ Locked

\* C28: approved_for_session turns on only in the step in which the
\* handler of a RequestKeys request takes its child's output.
C28_SessionFlagOnlyFromRequestKeys ==
    [][(~Approved_for_session /\ agent_state'.approved_for_session)
       => \E c \in Conns :
              /\ pc[c] = "await_output" /\ pc'[c] = "returned"
              /\ request[c] = "RequestKeys"]_vars

\* C29: a request whose dialog was closed without a click, or whose dialog
\* failed to run, returns false; a prompt process that went through its
\* dialog holds an approval only after Approve or Approve for Session was
\* clicked, and only then does its request return true.
C29_NoApprovalWithoutButton ==
    \A c \in Conns :
        /\ (pc[c] = "returned" /\ dialog_end[c] \in {"closed", "run_error"})
               => ~result[c]
        /\ (child[c].phase = "exited" /\ dialog_end[c] # "none"
            /\ child[c].user_response \in {"Approved", "ApprovedForSession"})
               => dialog_end[c] \in {"Approve", "Approve for Session"}
        /\ (pc[c] = "returned" /\ result[c] /\ dialog_end[c] # "none")
               => dialog_end[c] \in {"Approve", "Approve for Session"}

\* One request was denied after its dialog failed to run, its output not
\* being a response token; another was denied after its window was closed.
C29_Witness ==
    \E c, d \in Conns :
        /\ pc[c] = "returned" /\ dialog_end[c] = "run_error"
        /\ resp[c] = "Err" /\ ~result[c]
        /\ pc[d] = "returned" /\ dialog_end[d] = "closed"
        /\ resp[d] = "Declined" /\ ~result[d]

\* C30: every request put on the queue is eventually answered by one send
\* on its one-shot channel, and its handler, unless its task is dropped
\* while it waits, eventually returns from the call that queued it.
C30_QueuedRequestIsAnswered ==
    /\ \A r \in Rids : (r <= next_rid) ~> (sends[r] = 1)
    /\ \A c \in Conns : \A r \in Rids :
           (h_pc[c] = "await_resp" /\ h_rid[c] = r)
               ~> (h_rid[c] = r /\ (h_pc[c] = "gone"
                                    \/ (h_pc[c] = "returned" /\ sends[r] = 1)))

\* Two handlers have returned what was sent for their requests, the later
\* request having been queued while the dialog of the earlier one was open.
C30_Witness ==
    \E c, d \in Conns :
        /\ h_pc[c] = "returned" /\ h_pc[d] = "returned"
        /\ h_rid[c] < h_rid[d] /\ h_rid[c] > 0
        /\ sends[h_rid[c]] = 1 /\ sends[h_rid[d]] = 1
        /\ user_answer[h_rid[c]] = "yes" /\ h_result[c]
        /\ user_answer[h_rid[d]] \in {"no", "closed", "killed", "fork_failed"}
        /\ ~h_result[d]
====
